---- MODULE Spec2Model ----
(***************************************************************************)
(* A model of bleachbit/Unix.py: the locale purge planner                  *)
(* (locale_to_language, Locales.handle_path, Locales.localization_paths)   *)
(* and the external cleanup command drivers (apt_autoclean,                *)
(* apt_autoremove, yum_clean).                                             *)
(*                                                                         *)
(* Python strings are modelled as sequences of one-character strings, so   *)
(* that slicing, prefix tests and the regular expressions are computed     *)
(* character by character as the code computes them.                       *)
(***************************************************************************)
EXTENDS Integers, Sequences, FiniteSets, TLC

VARIABLES
    fs,        \* the filesystem the planner reads: [dirs, ls]
    paths,     \* Locales._paths, the registered rule trees
    gen,       \* the generator object returned by localization_paths
    hp,        \* the outcome of fully consuming one handle_path(path, node)
    cmd,       \* which cleanup function is running
    child,     \* the child process: "none", "running", "exited"
    returncode,\* the child's exit status once exited
    stdoutOpen,\* whether the child still holds the write end of the pipe
    pipe,      \* lines written by the child and not yet read
    written,   \* every line the child has written (history)
    seen,      \* every line readline() has taken from the pipe (history)
    sizes,     \* every getsizedir() measurement so far, tagged (history)
    spc,       \* the cleanup function's position
    line,      \* its local variable line
    total_bytes,
    non_blank_line,
    old_size,
    result,    \* the value returned
    raised     \* the message of the RuntimeError raised

planVars == <<fs, paths, gen, hp>>
scanVars == <<cmd, child, returncode, stdoutOpen, pipe, written, seen, sizes,
              spc, line, total_bytes, non_blank_line, old_size, result, raised>>
vars == <<fs, paths, gen, hp, cmd, child, returncode, stdoutOpen, pipe, written,
          seen, sizes, spc, line, total_bytes, non_blank_line, old_size, result,
          raised>>

----------------------------------------------------------------------------
(* Characters and generic string helpers                                   *)

Lower == {"a","b","c","d","e","f","g","h","i","j","k","l","m",
          "n","o","p","q","r","s","t","u","v","w","x","y","z"}
Upper == {"A","B","C","D","E","F","G","H","I","J","K","L","M",
          "N","O","P","Q","R","S","T","U","V","W","X","Y","Z"}
Digit == {"0","1","2","3","4","5","6","7","8","9"}
Letter == Lower \cup Upper

AllIn(s, class) == \A i \in 1..Len(s) : s[i] \in class

\* s[a:b] of Python for 0 <= a, with b counted from the start
Slice(s, a, b) == SubSeq(s, a + 1, b)

StartsWith(s, p) == Len(s) >= Len(p) /\ SubSeq(s, 1, Len(p)) = p
EndsWith(s, p) == Len(s) >= Len(p) /\ SubSeq(s, Len(s) - Len(p) + 1, Len(s)) = p

\* str.count for a one-character needle
Count(s, c) == Cardinality({i \in 1..Len(s) : s[i] = c})

\* str.find(sub) # -1
Contains(s, sub) ==
    \E i \in 0..(Len(s) - Len(sub)) : SubSeq(s, i + 1, i + Len(sub)) = sub

----------------------------------------------------------------------------
(* locale_to_language                                                      *)

klingon == <<"k","l","i","n","g","o","n">>

\* ([_-][a-zA-Z]{2,4})?
IsRegion(x) ==
    \/ x = <<>>
    \/ /\ Len(x) \in 3..5
       /\ x[1] \in {"_", "-"}
       /\ AllIn(Tail(x), Letter)

\* (\.[a-zA-Z0-9-]*)?
IsEncoding(x) ==
    \/ x = <<>>
    \/ /\ x[1] = "."
       /\ AllIn(Tail(x), Letter \cup Digit \cup {"-"})

\* (@[a-zA-Z]*)?
IsVariant(x) ==
    \/ x = <<>>
    \/ /\ x[1] = "@"
       /\ AllIn(Tail(x), Letter)

\* what follows the language group, up to the $ anchor
MatchesTail(t) ==
    \E r \in {0, 3, 4, 5} :
        /\ r <= Len(t)
        /\ IsRegion(SubSeq(t, 1, r))
        /\ \E e \in 0..(Len(t) - r) :
              /\ IsEncoding(SubSeq(t, r + 1, r + e))
              /\ IsVariant(SubSeq(t, r + e + 1, Len(t)))

\* ^([a-z]{2,3}) with the rest of the pattern after it
MatchesWith(locale, n) ==
    /\ Len(locale) >= n
    /\ AllIn(SubSeq(locale, 1, n), Lower)
    /\ MatchesTail(SubSeq(locale, n + 1, Len(locale)))

\* FirstGroup with a fault: the whole matched locale is returned
FirstGroupWhole(locale, n) == locale

\* the first group of the match: the language code without region, encoding
\* or variant
FirstGroup(locale, n) == SubSeq(locale, 1, n)

\* [ok |-> FALSE] stands for the ValueError
locale_to_language(locale) ==
    IF locale = klingon THEN [ok |-> TRUE, lang |-> locale]
    ELSE IF MatchesWith(locale, 3) THEN [ok |-> TRUE, lang |-> FirstGroup(locale, 3)]
    ELSE IF MatchesWith(locale, 2) THEN [ok |-> TRUE, lang |-> FirstGroup(locale, 2)]
    ELSE [ok |-> FALSE, lang |-> <<>>]

----------------------------------------------------------------------------
(* Locales.native_locale_names: the keys of the catalog                    *)

native_locale_names ==
    {<<"a", "r">>, <<"a", "s", "t">>, <<"b", "e">>, <<"b", "g">>,
     <<"b", "n">>, <<"b", "s">>, <<"c", "a">>, <<"c", "s">>,
     <<"d", "a">>, <<"d", "e">>, <<"e", "l">>, <<"e", "n">>,
     <<"e", "n", "_", "A", "U">>, <<"e", "n", "_", "G", "B">>, <<"e", "o">>, <<"e", "s">>,
     <<"e", "t">>, <<"f", "a">>, <<"f", "i">>, <<"f", "o">>,
     <<"f", "r">>, <<"g", "l">>, <<"h", "e">>, <<"h", "i">>,
     <<"h", "r">>, <<"h", "u">>, <<"h", "y">>, <<"i", "a">>,
     <<"i", "d">>, <<"i", "t">>, <<"i", "w">>, <<"k", "u">>,
     <<"k", "y">>, <<"j", "a">>, <<"j", "v">>, <<"l", "t">>,
     <<"k", "o">>, <<"m", "r">>, <<"m", "s">>, <<"m", "y">>,
     <<"n", "b">>, <<"n", "d", "s">>, <<"n", "l">>, <<"n", "o">>,
     <<"p", "l">>, <<"p", "t">>, <<"r", "o">>, <<"r", "u">>,
     <<"s", "k">>, <<"s", "l">>, <<"s", "r">>, <<"s", "v">>,
     <<"t", "r">>, <<"u", "g">>, <<"u", "k">>, <<"v", "i">>,
     <<"z", "h">>}

----------------------------------------------------------------------------
(* Locales.handle_path                                                     *)

ELEMENT_NODE == "ELEMENT_NODE"
TEXT_NODE == "TEXT_NODE"

\* isdir with a fault: the existence test is lost
isdirAlways(path) == TRUE

\* os.path.isdir(path): fs.dirs holds every directory, written with its
\* trailing separator
isdir(path) == path \in fs.dirs

\* os.listdir of a directory, in the order the system lists it
listdir(path) == IF path \in DOMAIN fs.ls THEN fs.ls[path] ELSE <<>>

\* path = path + location; if not path.endswith('/'): path += '/'
JoinLocation(path, location) ==
    LET p == path \o location
    IN  IF EndsWith(p, <<"/">>) THEN p ELSE p \o <<"/">>

\* userfilter = getAttribute('filter'), defaulted to '*' for a childless node
EffectiveFilter(xmldata) ==
    IF xmldata.filter = <<>> /\ xmldata.childNodes = <<>>
    THEN <<"*">> ELSE xmldata.filter

\* FilterMalformed with a fault: only a filter without placeholder is refused
FilterMalformedNoStar(userfilter) == Count(userfilter, "*") = 0

\* 1 != userfilter.count('*')
FilterMalformed(userfilter) == Count(userfilter, "*") # 1

\* [len(part) for part in userfilter.split('*')], for exactly one '*'
StarIndex(userfilter) == CHOOSE i \in 1..Len(userfilter) : userfilter[i] = "*"
prefixlen(userfilter) == StarIndex(userfilter) - 1
postfixlen(userfilter) == Len(userfilter) - StarIndex(userfilter)

\* glob.iglob(path + userfilter) within one directory: fnmatch of the entry
\* against prefix*suffix; an entry starting with '.' is matched only by a
\* pattern that starts with '.'
GlobMatches(name, userfilter) ==
    /\ name # <<>>
    /\ userfilter[1] # "." => name[1] # "."
    /\ Len(name) >= prefixlen(userfilter) + postfixlen(userfilter)
    /\ StartsWith(name, SubSeq(userfilter, 1, prefixlen(userfilter)))
    /\ EndsWith(name, SubSeq(userfilter, StarIndex(userfilter) + 1, Len(userfilter)))

\* filename[prefixlen:postfixlen] with postfixlen negated (None for 0)
StripFilter(filename, userfilter) ==
    Slice(filename, prefixlen(userfilter), Len(filename) - postfixlen(userfilter))

\* the loop over glob.iglob: a (locale, subpath) pair per entry whose stripped
\* name is a locale, entries raising ValueError skipped
RECURSIVE GlobPairs(_, _, _)
GlobPairs(path, userfilter, names) ==
    IF names = <<>> THEN <<>>
    ELSE LET filename == Head(names)
             conv == locale_to_language(StripFilter(filename, userfilter))
             rest == GlobPairs(path, userfilter, Tail(names))
         IN  IF GlobMatches(filename, userfilter) /\ conv.ok
             THEN <<[locale |-> conv.lang, path |-> path \o filename]>> \o rest
             ELSE rest

\* The outcome of fully consuming the generator handle_path(path, xmldata):
\* the pairs yielded, in order, and the error that ended it ("" for none).
RECURSIVE handle_path(_, _), handle_children(_, _)
handle_path(path, xmldata) ==
    IF xmldata.nodeType # ELEMENT_NODE THEN [pairs |-> <<>>, err |-> ""]
    ELSE IF xmldata.nodeName # "path" THEN [pairs |-> <<>>, err |-> "node"]
    ELSE IF xmldata.location = <<>> THEN [pairs |-> <<>>, err |-> "location"]
    ELSE LET p == JoinLocation(path, xmldata.location)
             userfilter == EffectiveFilter(xmldata)
         IN  IF ~isdir(p) THEN [pairs |-> <<>>, err |-> ""]
             ELSE IF userfilter # <<>> /\ FilterMalformed(userfilter)
                  THEN [pairs |-> <<>>, err |-> "filter"]
             ELSE LET own == IF userfilter # <<>>
                             THEN GlobPairs(p, userfilter, listdir(p))
                             ELSE <<>>
                      sub == handle_children(p, xmldata.childNodes)
                  IN  [pairs |-> own \o sub.pairs, err |-> sub.err]

\* for child in xmldata.childNodes: the children in order, up to the first
\* error
handle_children(path, childNodes) ==
    IF childNodes = <<>> THEN [pairs |-> <<>>, err |-> ""]
    ELSE LET first == handle_path(path, Head(childNodes))
         IN  IF first.err # "" THEN first
             ELSE LET rest == handle_children(path, Tail(childNodes))
                  IN  [pairs |-> first.pairs \o rest.pairs, err |-> rest.err]

----------------------------------------------------------------------------
(* Inputs of the planner: rule nodes, filesystems, keep-sets               *)

MaxChildren == 2   \* child nodes under one rule node
MaxPaths == 2      \* rule trees registered with add_xml

PathNode(location, filter, childNodes) ==
    [nodeType |-> ELEMENT_NODE, nodeName |-> "path", location |-> location,
     filter |-> filter, childNodes |-> childNodes]

\* the whitespace between two elements of the configuration document
TextNode ==
    [nodeType |-> TEXT_NODE, nodeName |-> "#text", location |-> <<>>,
     filter |-> <<>>, childNodes |-> <<>>]

\* an element that is no path element
OtherNode ==
    [nodeType |-> ELEMENT_NODE, nodeName |-> "file", location |-> <<>>,
     filter |-> <<>>, childNodes |-> <<>>]

dirL == <<"/", "l", "/">>
dirLM == <<"/", "l", "/", "m", "/">>
locL == <<"/", "l">>
locX == <<"/", "x">>
locM == <<"m">>
noFilter == <<>>
filterAll == <<"*">>
filterQm == <<"a", "_", "*", ".", "q", "m">>
filterNoStar == <<"f", "o", "o">>
filterTwoStars == <<"*", "_", "*">>

Filters == {noFilter, filterAll, filterQm, filterNoStar, filterTwoStars}

\* directory entries: locale names, names that are no locale, a hidden file
fileEn == <<"e", "n">>
fileEnGB == <<"e", "n", "_", "G", "B">>
fileEnAU == <<"e", "n", "_", "A", "U">>
fileDeDE == <<"d", "e", "_", "D", "E", ".", "U", "T", "F", "-", "8">>
fileXx == <<"x", "x">>
fileReadme == <<"R", "E", "A", "D", "M", "E">>
fileHidden == <<".", "d", "e">>
fileNds == <<"n", "d", "s">>
fileQmFr == <<"a", "_", "f", "r", ".", "q", "m">>
fileQmDe == <<"a", "_", "d", "e", ".", "q", "m">>
fileQmPt == <<"a", "_", "p", "t", "_", "B", "R", "@", "e", "u", "r", "o", ".", "q", "m">>
fileQm12 == <<"a", "_", "1", "2", ".", "q", "m">>
fileQmOther == <<"b", "_", "e", "n", ".", "q", "m">>

FsFull ==
    [dirs |-> {dirL, dirLM},
     ls |-> (dirL :> <<fileEn, fileEnGB, fileDeDE, fileXx, fileReadme,
                       fileHidden, locM, klingon, fileQmFr>>)
            @@ (dirLM :> <<fileQmDe, fileQmPt, fileQm12, fileQmOther>>)]
FsFlat ==
    [dirs |-> {dirL},
     ls |-> (dirL :> <<fileEn, fileEnAU, fileNds>>)]
FsEmpty ==
    [dirs |-> {}, ls |-> <<>>]

FileSystems == {FsFull, FsFlat, FsEmpty}

LeafNodes ==
    {TextNode, OtherNode, PathNode(<<>>, filterAll, <<>>)}
    \cup {PathNode(loc, f, <<>>) : loc \in {locM, locX}, f \in Filters}

\* a rule under a directory that may be missing, with a malformed rule below
DeepNode == PathNode(locM, noFilter, <<PathNode(locX, filterTwoStars, <<>>)>>)

ChildNodes == LeafNodes \cup {DeepNode}

SeqsUpTo(S, n) == UNION {[1..k -> S] : k \in 0..n}

ParentNodes ==
    {PathNode(loc, f, cs) :
        loc \in {locL, locX}, f \in {noFilter, filterAll, filterNoStar},
        cs \in SeqsUpTo(ChildNodes, MaxChildren)}

\* what add_xml registers
RootNodes ==
    {OtherNode,
     PathNode(locL, noFilter, <<>>),
     PathNode(dirL, noFilter, <<TextNode, PathNode(locM, filterQm, <<>>)>>),
     PathNode(locL, filterNoStar, <<>>),
     PathNode(locX, filterAll, <<PathNode(locM, filterTwoStars, <<>>)>>)}

codeEn == <<"e", "n">>
codeEnGB == <<"e", "n", "_", "G", "B">>
codeXx == <<"x", "x">>

\* the keep-sets a caller passes: every choice among a language, a region
\* code and a code outside the catalog, and the whole catalog
KeepSets == (SUBSET {codeEn, codeEnGB, codeXx}) \cup {native_locale_names}

----------------------------------------------------------------------------
(* Locales.add_xml and Locales.localization_paths                          *)

NoGen == [state |-> "none", keep |-> {}, pos |-> 0, yielded |-> <<>>, err |-> ""]
NoCall == [called |-> FALSE, path |-> <<>>, node |-> TextNode, pairs |-> <<>>,
           err |-> ""]

\* NoLocalesToKeep with a fault: the guard is lost
NoLocalesToKeepNever(locales_to_keep) == FALSE

\* not locales_to_keep
NoLocalesToKeep(locales_to_keep) == locales_to_keep = {}

\* purgeable_locales with a fault: the keep-set is not subtracted
purgeable_localesAll(locales_to_keep) == native_locale_names

\* frozenset(locale for locale in native_locale_names.keys()
\*           if locale not in locales_to_keep)
purgeable_locales(locales_to_keep) ==
    {locale \in native_locale_names : locale \notin locales_to_keep}

\* for xml_node in self._paths: for (locale, path) in handle_path('', xml_node):
\* the pairs the two loops produce, in order, and the error that ends them
RECURSIVE Discovered(_)
Discovered(nodes) ==
    IF nodes = <<>> THEN [pairs |-> <<>>, err |-> ""]
    ELSE LET first == handle_path(<<>>, Head(nodes))
         IN  IF first.err # "" THEN first
             ELSE LET rest == Discovered(Tail(nodes))
                  IN  [pairs |-> first.pairs \o rest.pairs, err |-> rest.err]

\* add_xml(xml_node)
add_xml(xml_node) ==
    /\ Len(paths) < MaxPaths
    /\ paths' = Append(paths, xml_node)
    /\ UNCHANGED <<fs, gen, hp>>
    /\ UNCHANGED scanVars

\* localization_paths(locales_to_keep): the call only creates the generator,
\* no line of the body has run yet
localization_paths(locales_to_keep) ==
    /\ gen.state = "none"
    /\ gen' = [NoGen EXCEPT !.state = "created", !.keep = locales_to_keep]
    /\ UNCHANGED <<fs, paths, hp>>
    /\ UNCHANGED scanVars

\* next() on the generator: the body runs to its next yield, to its end or to
\* an error
GenNext ==
    /\ gen.state \in {"created", "suspended"}
    /\ IF gen.state = "created" /\ NoLocalesToKeep(gen.keep)
       THEN gen' = [gen EXCEPT !.state = "raised",
                               !.err = "Found no locales to keep"]
       ELSE LET d == Discovered(paths)
                hits == {k \in (gen.pos + 1)..Len(d.pairs) :
                            d.pairs[k].locale \in purgeable_locales(gen.keep)}
            IN  IF hits # {}
                THEN LET k == CHOOSE h \in hits : \A o \in hits : h <= o
                     IN  gen' = [gen EXCEPT !.state = "suspended", !.pos = k,
                                      !.yielded = Append(@, d.pairs[k].path)]
                ELSE gen' = [gen EXCEPT
                                !.state = IF d.err # "" THEN "raised" ELSE "done",
                                !.pos = Len(d.pairs),
                                !.err = d.err]
    /\ UNCHANGED <<fs, paths, hp>>
    /\ UNCHANGED scanVars

\* list(handle_path(path, xmldata)): one rule tree evaluated to its end
EvalHandlePath(path, xmldata) ==
    /\ LET r == handle_path(path, xmldata)
       IN  hp' = [called |-> TRUE, path |-> path, node |-> xmldata,
                  pairs |-> r.pairs, err |-> r.err]
    /\ UNCHANGED <<fs, paths, gen>>
    /\ UNCHANGED scanVars

ScanIdle ==
    /\ cmd = "none"
    /\ child = "none"
    /\ returncode = 0
    /\ stdoutOpen = FALSE
    /\ pipe = <<>>
    /\ written = <<>>
    /\ seen = <<>>
    /\ sizes = <<>>
    /\ spc = "idle"
    /\ line = <<>>
    /\ total_bytes = 0
    /\ non_blank_line = <<>>
    /\ old_size = 0
    /\ result = 0
    /\ raised = <<>>

PlanIdle ==
    /\ paths = <<>>
    /\ gen = NoGen
    /\ hp = NoCall

Init ==
    /\ fs \in FileSystems
    /\ PlanIdle
    /\ ScanIdle

Next ==
    \/ \E xml_node \in RootNodes : add_xml(xml_node)
    \/ \E locales_to_keep \in KeepSets : localization_paths(locales_to_keep)
    \/ GenNext

\* the purge planner: rule trees are registered, a generator is created and
\* consumed
Spec == Init /\ [][Next]_vars

\* one evaluation per behaviour: of a tree from the root, or of a subtree
\* below the directory its parent resolved
NextHandle ==
    /\ ~hp.called
    /\ \/ \E xmldata \in ParentNodes : EvalHandlePath(<<>>, xmldata)
       \/ \E xmldata \in ChildNodes : EvalHandlePath(dirL, xmldata)

\* rule evaluation alone: handle_path applied to one tree under one prefix
SpecHandle == Init /\ [][NextHandle]_vars

----------------------------------------------------------------------------
(* Properties of the purge planner                                         *)

Range(f) == {f[i] : i \in DOMAIN f}
PathsOf(prs) == [i \in 1..Len(prs) |-> prs[i].path]

\* the pairs the generator has taken from handle_path so far
Consumed == SubSeq(Discovered(paths).pairs, 1, gen.pos)

IsCatalogNotKept(pr) == pr.locale \in native_locale_names /\ pr.locale \notin gen.keep

\* C1: with a non-empty keep-set, the paths localization_paths has yielded are
\* exactly the paths of the discovered pairs whose code is a key of the catalog
\* and is not kept, in discovery order; a keep-set holding every catalog key
\* yields nothing.
C1_YieldedIffPurgeable ==
    (gen.state # "none" /\ gen.keep # {}) =>
        /\ gen.yielded = PathsOf(SelectSeq(Consumed, IsCatalogNotKept))
        /\ native_locale_names \subseteq gen.keep => gen.yielded = <<>>

\* a finished run that yielded a path, passed over a kept code and passed over
\* a code the catalog does not hold
C1_Witness ==
    /\ gen.state = "done"
    /\ gen.keep # {}
    /\ gen.yielded # <<>>
    /\ \E k \in 1..Len(Consumed) : Consumed[k].locale \in gen.keep
    /\ \E k \in 1..Len(Consumed) : Consumed[k].locale \notin native_locale_names

\* C2: a generator made with an empty keep-set yields nothing and never ends
\* normally; once advanced it has raised 'Found no locales to keep'.
C2_EmptyKeepFails ==
    (gen.state # "none" /\ gen.keep = {}) =>
        /\ gen.yielded = <<>>
        /\ gen.state \in {"created", "raised"}
        /\ gen.state = "raised" => gen.err = "Found no locales to keep"

\* the error raised although the registered trees hold purgeable files
C2_Witness ==
    /\ gen.state = "raised"
    /\ gen.keep = {}
    /\ \E k \in 1..Len(Discovered(paths).pairs) :
          Discovered(paths).pairs[k].locale \in native_locale_names

\* 2-3 lowercase letters, or 'klingon'
BareCode(c) == c = klingon \/ (Len(c) \in {2, 3} /\ AllIn(c, Lower))
Bare(codes) == {c \in codes : BareCode(c)}

\* list(localization_paths(locales_to_keep)) over the registered trees: what
\* consuming a fresh generator yields, and the error that ends it
Consume(nodes, locales_to_keep) ==
    IF NoLocalesToKeep(locales_to_keep)
    THEN [yielded |-> <<>>, err |-> "Found no locales to keep"]
    ELSE LET d == Discovered(nodes)
             Hit(pr) == pr.locale \in purgeable_locales(locales_to_keep)
         IN  [yielded |-> PathsOf(SelectSeq(d.pairs, Hit)), err |-> d.err]

GenFinishedAll ==
    /\ gen.state \in {"done", "raised"}
    /\ gen.pos = Len(Discovered(paths).pairs)

\* C10 as stated: every consumed pair carries a bare language code, and any
\* keep-set with the same bare codes yields the same paths.
C10_Original ==
    GenFinishedAll =>
        /\ \A k \in 1..Len(Consumed) : BareCode(Consumed[k].locale)
        /\ \A other \in KeepSets :
              Bare(other) = Bare(gen.keep) =>
                  Consume(paths, other).yielded = gen.yielded

\* C10: every consumed pair carries a bare language code, and any non-empty
\* keep-set with the same bare codes as the generator's non-empty keep-set
\* yields the same paths.
C10_BareCodesDecide ==
    GenFinishedAll =>
        /\ \A k \in 1..Len(Consumed) : BareCode(Consumed[k].locale)
        /\ \A other \in KeepSets :
              (other # {} /\ gen.keep # {} /\ Bare(other) = Bare(gen.keep)) =>
                  Consume(paths, other).yielded = gen.yielded

\* en_GB is kept, en is not, and the file named en_GB was found and yielded
C10_Witness ==
    /\ gen.state = "done"
    /\ codeEnGB \in gen.keep
    /\ codeEn \notin gen.keep
    /\ \E k \in 1..Len(Consumed) :
          /\ Consumed[k].path = dirL \o codeEnGB
          /\ Consumed[k].locale = codeEn
    /\ dirL \o codeEnGB \in Range(gen.yielded)

IsPathElement(n) == n.nodeType = ELEMENT_NODE /\ n.nodeName = "path"
WellFormedPath(n) == IsPathElement(n) /\ n.location # <<>>
MalformedHere(n) ==
    IsPathElement(n) /\ n.filter # <<>> /\ Count(n.filter, "*") # 1

RECURSIVE HasMalformed(_)
HasMalformed(n) ==
    MalformedHere(n) \/ \E i \in 1..Len(n.childNodes) : HasMalformed(n.childNodes[i])

\* no rule error other than a malformed filter is in the tree
RECURSIVE OnlyFilterErrors(_)
OnlyFilterErrors(n) ==
    /\ n.nodeType = ELEMENT_NODE => WellFormedPath(n)
    /\ \A i \in 1..Len(n.childNodes) : OnlyFilterErrors(n.childNodes[i])

\* the path nodes whose directory, and every directory above it, exists
RECURSIVE Visited(_, _)
Visited(path, n) ==
    IF ~WellFormedPath(n) THEN {}
    ELSE LET p == JoinLocation(path, n.location)
         IN  IF p \notin fs.dirs THEN {}
             ELSE {[node |-> n, dir |-> p]}
                  \cup UNION {Visited(p, n.childNodes[i]) : i \in 1..Len(n.childNodes)}

\* C7 as stated: a tree holding a malformed filter (and no other rule error)
\* is rejected with the malformed-filter error, whatever directories exist.
C7_Original ==
    (hp.called /\ HasMalformed(hp.node) /\ OnlyFilterErrors(hp.node)) =>
        hp.err = "filter"

\* C7: the malformed-filter error is raised only for a malformed node whose
\* directory and all directories above it exist; when such a node exists the
\* evaluation is aborted, with the malformed-filter error if the tree holds no
\* other rule error.
C7_RejectedWhereDirectoryExists ==
    hp.called =>
        LET bad == {v \in Visited(hp.path, hp.node) : MalformedHere(v.node)}
        IN  /\ hp.err = "filter" => bad # {}
            /\ bad # {} => hp.err # ""
            /\ (bad # {} /\ OnlyFilterErrors(hp.node)) => hp.err = "filter"

\* pairs were yielded before a child's malformed filter aborted the evaluation
C7_Witness ==
    /\ hp.called
    /\ hp.err = "filter"
    /\ hp.pairs # <<>>
    /\ \E i \in 1..Len(hp.node.childNodes) : MalformedHere(hp.node.childNodes[i])

\* the pairs a node's own filter finds in its directory
OwnPairs(dir, n) ==
    LET f == EffectiveFilter(n)
    IN  IF f = <<>> \/ Count(f, "*") # 1 THEN {}
        ELSE {[locale |-> locale_to_language(StripFilter(name, f)).lang,
               path |-> dir \o name] :
                 name \in {x \in Range(listdir(dir)) :
                             /\ GlobMatches(x, f)
                             /\ locale_to_language(StripFilter(x, f)).ok}}

\* C8: a well-formed path node whose directory does not exist yields nothing
\* and raises nothing, whatever is below it; beside it, every sibling whose
\* directory exists still contributes its own pairs.
C8_MissingDirectoryIsEmpty ==
    hp.called =>
        LET p == JoinLocation(hp.path, hp.node.location)
        IN  /\ (WellFormedPath(hp.node) /\ p \notin fs.dirs) =>
                  (hp.pairs = <<>> /\ hp.err = "")
            /\ (WellFormedPath(hp.node) /\ p \in fs.dirs /\ hp.err = "") =>
                  \A i \in 1..Len(hp.node.childNodes) :
                      LET c == hp.node.childNodes[i]
                          cd == JoinLocation(p, c.location)
                      IN  WellFormedPath(c) =>
                            IF cd \in fs.dirs
                            THEN OwnPairs(cd, c) \subseteq Range(hp.pairs)
                            ELSE \A k \in 1..Len(hp.pairs) :
                                    ~StartsWith(hp.pairs[k].path, cd)

\* a missing directory with a malformed filter, and the sibling after it found
C8_Witness ==
    /\ hp.called
    /\ hp.err = ""
    /\ hp.node.childNodes = <<PathNode(locX, filterNoStar, <<>>),
                              PathNode(locM, filterQm, <<>>)>>
    /\ \E k \in 1..Len(hp.pairs) : StartsWith(hp.pairs[k].path, dirLM)

----------------------------------------------------------------------------
(* The cleanup command drivers: apt_autoclean, apt_autoremove, yum_clean   *)

MaxOutput == 3     \* lines the child writes
MaxSize == 1       \* the sizes a measurement of /var/cache/yum returns: 0..MaxSize

blankLine == <<>>
lineError == <<"E", ":", " ", "x">>
lineDel == <<"D", "e", "l", " ", "a", " ", "1", " ", "[", "1", "k", "B", "]">>
lineFreed == <<"o", "p", ",", " ", "1", ".", "5", "M", "B", " ", "d", "i", "s", "k", " ", "s", "p", "a", "c", "e", " ", "w", "i", "l", "l", " ", "b", "e", " ", "f", "r", "e", "e", "d", ".">>
lineOther == <<"R", "e", "a", "d", "i", "n", "g">>
lineRoot == <<"Y", "o", "u", " ", "n", "e", "e", "d", " ", "t", "o", " ", "b", "e", " ", "r", "o", "o", "t">>
lineRpmdb == <<"C", "a", "n", "n", "o", "t", " ", "r", "e", "m", "o", "v", "e", " ", "r", "p", "m", "d", "b", " ", "f", "i", "l", "e">>
lineHolding == <<"A", "n", "o", "t", "h", "e", "r", " ", "a", "p", "p", " ", "i", "s", " ", "c", "u", "r", "r", "e", "n", "t", "l", "y", " ", "h", "o", "l", "d", "i", "n", "g">>
lineShort == <<"o", "k">>

AptCleanLines == {blankLine, lineError, lineDel, lineOther}
AptRemoveLines == {blankLine, lineError, lineFreed, lineOther}
YumLines == {blankLine, lineRoot, lineRpmdb, lineHolding, lineOther, lineShort}

\* what each command may print
LinesOf(c) ==
    IF c = "apt_autoclean" THEN AptCleanLines
    ELSE IF c = "apt_autoremove" THEN AptRemoveLines
    ELSE YumLines

\* the exit statuses of the child: success, failure, killed by a signal
ReturnCodes == {0, 1, -15}

\* str.replace("\n", "")
StripNewlines(s) == LET Keep(c) == c # "\n" IN SelectSeq(s, Keep)

\* process.stdout.readline(): the next line with its newline, or '' at the
\* end of the stream
readline == IF pipe # <<>> THEN Head(pipe) \o <<"\n">> ELSE <<>>

\* line.startswith('E: ')
IsAptError(l) == StartsWith(l, <<"E", ":", " ">>)

\* [0-9.]+[a-zA-Z]{2} starting right after position i and followed by `after`:
\* the end of the digits, or 0
TokenEnd(l, i, after) ==
    LET ends == {j \in (i + 1)..Len(l) :
                    /\ AllIn(SubSeq(l, i + 1, j), Digit \cup {"."})
                    /\ j + 2 <= Len(l)
                    /\ l[j + 1] \in Letter
                    /\ l[j + 2] \in Letter
                    /\ StartsWith(SubSeq(l, j + 3, Len(l)), after)}
    IN  IF ends = {} THEN 0 ELSE CHOOSE j \in ends : TRUE

\* re.search("^Del .*\[([0-9.]+[a-zA-Z]{2})\]", line): the group, or <<>>
\* when nothing matches; the greedy .* takes the last bracket that fits
DelMatch(l) ==
    LET starts == {i \in 5..Len(l) : l[i] = "[" /\ TokenEnd(l, i, <<"]">>) # 0}
    IN  IF ~StartsWith(l, <<"D", "e", "l", " ">>) \/ starts = {} THEN <<>>
        ELSE LET i == CHOOSE a \in starts : \A b \in starts : b <= a
             IN  SubSeq(l, i + 1, TokenEnd(l, i, <<"]">>) + 2)

\* re.search(", ([0-9.]+[a-zA-Z]{2}) disk space will be freed", line): the
\* group of the leftmost match, or <<>>
FreedMatch(l) ==
    LET tail == <<" ", "d", "i", "s", "k", " ", "s", "p", "a", "c", "e", " ", "w", "i", "l", "l", " ", "b", "e", " ", "f", "r", "e", "e", "d">>
        starts == {i \in 2..Len(l) :
                      /\ l[i - 1] = ","
                      /\ l[i] = " "
                      /\ TokenEnd(l, i, tail) # 0}
    IN  IF starts = {} THEN <<>>
        ELSE LET i == CHOOSE a \in starts : \A b \in starts : a <= b
             IN  SubSeq(l, i + 1, TokenEnd(l, i, tail) + 2)

LowerSeq == <<"a", "b", "c", "d", "e", "f", "g", "h", "i", "j", "k", "l", "m", "n", "o", "p", "q", "r", "s", "t", "u", "v", "w", "x", "y", "z">>
UpperSeq == <<"A", "B", "C", "D", "E", "F", "G", "H", "I", "J", "K", "L", "M", "N", "O", "P", "Q", "R", "S", "T", "U", "V", "W", "X", "Y", "Z">>

\* str.upper()
upper(s) ==
    [i \in 1..Len(s) |->
        IF s[i] \in Lower
        THEN UpperSeq[CHOOSE k \in 1..26 : LowerSeq[k] = s[i]]
        ELSE s[i]]

DigitSeq == <<"0", "1", "2", "3", "4", "5", "6", "7", "8", "9">>
DigitValue(c) == (CHOOSE k \in 1..10 : DigitSeq[k] = c) - 1

RECURSIVE ParseInt(_)
ParseInt(ds) ==
    IF ds = <<>> THEN 0
    ELSE 10 * ParseInt(SubSeq(ds, 1, Len(ds) - 1)) + DigitValue(ds[Len(ds)])

Pow10(k) == IF k = 0 THEN 1 ELSE IF k = 1 THEN 10 ELSE 100

\* FileUtilities.human_to_bytes of an uppercased token such as 1165KB or
\* 74.7MB: decimal units, up to two decimals, rounded down; -1 stands for the
\* ValueError of a token it does not understand
human_to_bytes(human) ==
    LET unit == SubSeq(human, Len(human) - 1, Len(human))
        num == SubSeq(human, 1, Len(human) - 2)
        dots == {i \in 1..Len(num) : num[i] = "."}
        mult == IF unit = <<"K", "B">> THEN 1000
                ELSE IF unit = <<"M", "B">> THEN 1000000
                ELSE IF unit = <<"G", "B">> THEN 1000000000
                ELSE 0
    IN  IF mult = 0 \/ Cardinality(dots) > 1 THEN -1
        ELSE IF dots = {} THEN ParseInt(num) * mult
        ELSE LET d == CHOOSE i \in dots : TRUE
                 whole == SubSeq(num, 1, d - 1)
                 frac == SubSeq(num, d + 1, Len(num))
             IN  IF Len(frac) \notin {1, 2} THEN -1
                 ELSE ParseInt(whole) * mult
                      + ParseInt(frac) * (mult \div Pow10(Len(frac)))

\* the size token a line of the command's output carries, or <<>>
SizeToken(c, l) ==
    IF c = "apt_autoclean" THEN DelMatch(l) ELSE FreedMatch(l)

\* pkg_bytes of a line, 0 for a line the pattern does not match
LineBytes(c, l) ==
    IF SizeToken(c, l) = <<>> THEN 0 ELSE human_to_bytes(upper(SizeToken(c, l)))

\* pkg_bytes for each line a command may print, computed once
PkgBytes ==
    [c \in {"apt_autoclean", "apt_autoremove"} |->
        [l \in LinesOf(c) |-> LineBytes(c, l)]]

\* the lines of yum that end the scan with an error
IsYumFatal(l) == Contains(l, lineRoot) \/ Contains(l, lineRpmdb)

IsFatal(c, l) == IF c = "yum_clean" THEN IsYumFatal(l) ELSE IsAptError(l)

\* -1 != line.find('Another app is currently holding')
IsHolding(l) == Contains(l, lineHolding)

\* Rebaseline with a fault: the first measurement is kept
RebaselineNever(l, old, measured) == old

\* old_size after a line: measured again when the line reports the lock held
Rebaseline(l, old, measured) == IF IsHolding(l) THEN measured ELSE old

\* if len(line) > 2: non_blank_line = line
NonBlank(l, last) == IF Len(l) > 2 THEN l ELSE last

\* Exited with a fault: the process status is not consulted
ExitedAlways == TRUE

\* process.poll() != None
Exited == child = "exited"

----------------------------------------------------------------------------
(* The drivers as processes: the function's steps and the child's steps    *)

msgNotFound == <<"Executable not found">>
msgYumRunning == <<"Yum cannot be cleaned because it is currently running">>
msgValueError == <<"ValueError">>

\* apt_autoclean() and apt_autoremove() up to the loop: the executable is
\* looked up, then the child is started with its two streams merged
AptStart(c, exe_exists) ==
    /\ spc = "idle"
    /\ cmd' = c
    /\ IF ~exe_exists
       THEN /\ spc' = "raised"
            /\ raised' = msgNotFound
            /\ UNCHANGED <<child, stdoutOpen>>
       ELSE /\ spc' = "loop"
            /\ child' = "running"
            /\ stdoutOpen' = TRUE
            /\ UNCHANGED raised
    /\ UNCHANGED <<returncode, pipe, written, seen, sizes, line, total_bytes,
                   non_blank_line, old_size, result>>
    /\ UNCHANGED planVars

apt_autoclean(exe_exists) == AptStart("apt_autoclean", exe_exists)

apt_autoremove(exe_exists) == AptStart("apt_autoremove", exe_exists)

\* yum_clean() up to the loop: the pid file and the executable are looked up,
\* the cache directory is measured, then the child is started
yum_clean(pid_exists, exe_exists, measured) ==
    /\ spc = "idle"
    /\ cmd' = "yum_clean"
    /\ IF pid_exists \/ ~exe_exists
       THEN /\ spc' = "raised"
            /\ raised' = IF pid_exists THEN msgYumRunning ELSE msgNotFound
            /\ UNCHANGED <<child, stdoutOpen, old_size, sizes>>
       ELSE /\ spc' = "loop"
            /\ child' = "running"
            /\ stdoutOpen' = TRUE
            /\ old_size' = measured
            /\ sizes' = <<[at |-> "before", size |-> measured]>>
            /\ UNCHANGED raised
    /\ UNCHANGED <<returncode, pipe, written, seen, line, total_bytes,
                   non_blank_line, result>>
    /\ UNCHANGED planVars

\* One pass of the loop body up to its last test: readline() returns (it
\* blocks while the pipe is empty and open), the line is tested against the
\* fatal patterns and the size pattern. An empty line leads to the poll.
ReadLine(measured) ==
    /\ spc = "loop"
    /\ pipe # <<>> \/ ~stdoutOpen
    /\ LET l == StripNewlines(readline)
       IN  /\ seen' = IF pipe # <<>> THEN Append(seen, Head(pipe)) ELSE seen
           /\ pipe' = IF pipe # <<>> THEN Tail(pipe) ELSE pipe
           /\ line' = l
           /\ IF cmd = "yum_clean"
              THEN /\ non_blank_line' = NonBlank(l, non_blank_line)
                   /\ IF IsYumFatal(l)
                      THEN /\ spc' = "raised"
                           /\ raised' = l
                           /\ UNCHANGED <<old_size, sizes>>
                      ELSE /\ old_size' = Rebaseline(l, old_size, measured)
                           /\ sizes' = IF IsHolding(l)
                                       THEN Append(sizes, [at |-> "holding",
                                                           size |-> measured])
                                       ELSE sizes
                           /\ spc' = IF l = <<>> THEN "poll" ELSE "loop"
                           /\ UNCHANGED raised
                   /\ UNCHANGED total_bytes
              ELSE /\ IF IsAptError(l)
                      THEN /\ spc' = "raised"
                           /\ raised' = l
                           /\ UNCHANGED total_bytes
                      ELSE IF PkgBytes[cmd][l] < 0
                      THEN /\ spc' = "raised"
                           /\ raised' = msgValueError
                           /\ UNCHANGED total_bytes
                      ELSE /\ total_bytes' = total_bytes + PkgBytes[cmd][l]
                           /\ spc' = IF l = <<>> THEN "poll" ELSE "loop"
                           /\ UNCHANGED raised
                   /\ UNCHANGED <<non_blank_line, old_size, sizes>>
    /\ UNCHANGED <<cmd, child, returncode, stdoutOpen, written, result>>
    /\ UNCHANGED planVars

\* The last test of the loop body after an empty line, and what follows the
\* loop: process.poll() is asked; a finished process ends the loop, and the
\* function returns its total (apt) or checks the exit status, measures the
\* directory again and returns the difference (yum).
Poll(measured) ==
    /\ spc = "poll"
    /\ IF ~Exited
       THEN /\ spc' = "loop"
            /\ UNCHANGED <<result, raised, sizes>>
       ELSE IF cmd # "yum_clean"
       THEN /\ spc' = "returned"
            /\ result' = total_bytes
            /\ UNCHANGED <<raised, sizes>>
       ELSE IF returncode > 0
       THEN /\ spc' = "raised"
            /\ raised' = non_blank_line
            /\ UNCHANGED <<result, sizes>>
       ELSE /\ spc' = "returned"
            /\ result' = old_size - measured
            /\ sizes' = Append(sizes, [at |-> "after", size |-> measured])
            /\ UNCHANGED raised
    /\ UNCHANGED <<cmd, child, returncode, stdoutOpen, pipe, written, seen, line,
                   total_bytes, non_blank_line, old_size>>
    /\ UNCHANGED planVars

\* the child prints a line
ChildWrite(l) ==
    /\ child = "running"
    /\ stdoutOpen
    /\ Len(written) < MaxOutput
    /\ pipe' = Append(pipe, l)
    /\ written' = Append(written, l)
    /\ UNCHANGED <<cmd, child, returncode, stdoutOpen, seen, sizes, spc, line,
                   total_bytes, non_blank_line, old_size, result, raised>>
    /\ UNCHANGED planVars

\* the child closes its output before it exits
ChildClose ==
    /\ child = "running"
    /\ stdoutOpen
    /\ stdoutOpen' = FALSE
    /\ UNCHANGED <<cmd, child, returncode, pipe, written, seen, sizes, spc, line,
                   total_bytes, non_blank_line, old_size, result, raised>>
    /\ UNCHANGED planVars

\* the child exits; what it wrote stays in the pipe
ChildExit(rc) ==
    /\ child = "running"
    /\ child' = "exited"
    /\ returncode' = rc
    /\ stdoutOpen' = FALSE
    /\ UNCHANGED <<cmd, pipe, written, seen, sizes, spc, line, total_bytes,
                   non_blank_line, old_size, result, raised>>
    /\ UNCHANGED planVars

InitScan ==
    /\ fs = FsEmpty
    /\ PlanIdle
    /\ ScanIdle

Step ==
    \/ \E measured \in 0..MaxSize : ReadLine(measured)
    \/ \E measured \in 0..MaxSize : Poll(measured)

NextScan ==
    \/ \E exe_exists \in BOOLEAN : apt_autoclean(exe_exists)
    \/ \E exe_exists \in BOOLEAN : apt_autoremove(exe_exists)
    \/ \E pid_exists \in BOOLEAN, exe_exists \in BOOLEAN, measured \in 0..MaxSize :
          yum_clean(pid_exists, exe_exists, measured)
    \/ Step
    \/ \E l \in LinesOf(cmd) : ChildWrite(l)
    \/ ChildClose
    \/ \E rc \in ReturnCodes : ChildExit(rc)

\* a cleanup function running beside its child process
SpecScan == InitScan /\ [][NextScan]_vars

\* the same, with the function's thread never starved: a step of the loop
\* that is possible is eventually taken
SpecScanFair == InitScan /\ [][NextScan]_vars /\ WF_vars(Step)

----------------------------------------------------------------------------
(* Properties of the cleanup command drivers                               *)

IsApt == cmd \in {"apt_autoclean", "apt_autoremove"}
Finished == spc \in {"returned", "raised"}

RECURSIVE SumBytes(_, _)
SumBytes(c, ls) ==
    IF ls = <<>> THEN 0 ELSE LineBytes(c, Head(ls)) + SumBytes(c, Tail(ls))

\* C3: when apt_autoclean or apt_autoremove returns, every line the child
\* wrote has been examined, so the total returned is the sum of the sizes of
\* all size lines of the complete output.
C3_TotalCountsEveryLine ==
    (IsApt /\ spc = "returned") => result = SumBytes(cmd, written)

FatalLinesWritten == {i \in 1..Len(written) : IsAptError(written[i])}

\* C4: when the output of apt_autoclean or apt_autoremove holds a line
\* starting with 'E: ', the finished scan has raised the first such line and
\* has returned no total.
C4_FatalLineAlwaysRaised ==
    (IsApt /\ Finished /\ FatalLinesWritten # {}) =>
        /\ spc = "raised"
        /\ raised = written[CHOOSE i \in FatalLinesWritten :
                               \A j \in FatalLinesWritten : i <= j]

\* the last line read that is not blank, <<>> when there is none
LastNonBlankSeen ==
    LET idx == {i \in 1..Len(seen) : seen[i] # <<>>}
    IN  IF idx = {} THEN <<>>
        ELSE seen[CHOOSE i \in idx : \A j \in idx : j <= i]

\* C5: a finished command whose child exited with a failure status, no fatal
\* line having been matched, has raised the last non-blank line read; no
\* total is returned after a failed exit.
C5_FailedExitRaises ==
    (cmd # "none" /\ Finished /\ child = "exited" /\ returncode # 0
        /\ ~(spc = "raised" /\ IsFatal(cmd, line))) =>
        /\ spc = "raised"
        /\ raised = LastNonBlankSeen

HoldingSeen == \E i \in 1..Len(seen) : IsHolding(seen[i])

\* the measurement taken at the last 'holding' line
LastHoldingSize ==
    LET idx == {i \in 1..Len(sizes) : sizes[i].at = "holding"}
    IN  sizes[CHOOSE i \in idx : \A j \in idx : j <= i].size

\* C6 as stated: after a 'holding' line and a successful exit, yum_clean
\* returns a non-negative count.
C6_Original ==
    (cmd = "yum_clean" /\ spc = "returned" /\ HoldingSeen /\ returncode = 0) =>
        /\ result = LastHoldingSize - sizes[Len(sizes)].size
        /\ result >= 0

\* C6: a 'holding' line does not abort yum_clean, and after one the value
\* returned is the size measured at the last such line minus the size measured
\* after the exit; it may be negative, and is never below -MaxSize here.
C6_RebaselinedDifference ==
    /\ (cmd = "yum_clean" /\ spc = "returned" /\ HoldingSeen) =>
          /\ result = LastHoldingSize - sizes[Len(sizes)].size
          /\ sizes[Len(sizes)].at = "after"
          /\ returncode <= 0
    /\ (cmd = "yum_clean" /\ spc = "raised" /\ child = "running") =>
          ~IsHolding(raised)

\* the baseline was replaced by a different size, and the directory grew
\* after it: a negative count is returned
C6_Witness ==
    /\ cmd = "yum_clean"
    /\ spc = "returned"
    /\ HoldingSeen
    /\ returncode = 0
    /\ sizes[1].size # LastHoldingSize
    /\ result < 0

InLoop == spc \in {"loop", "poll"}

\* C9: once the child has exited and the pipe is drained the loop ends; and a
\* step that ends the loop while the child is still running is the raise of a
\* fatal line, never the reading of a blank line.
C9_LoopEnds ==
    /\ (child = "exited" /\ pipe = <<>> /\ InLoop) ~> Finished
    /\ [][(InLoop /\ ~InLoop' /\ child = "running") =>
             (spc' = "raised" /\ line' # <<>>)]_vars

\* a blank line was read while the child was running and the loop went on
C9_Witness ==
    /\ spc = "loop"
    /\ child = "running"
    /\ seen # <<>>
    /\ seen[Len(seen)] = <<>>
    /\ line = <<>>
    /\ pipe = <<>>

====
